---- MODULE Spec2Model ----
(***************************************************************************)
(* Mini-CRM lead distribution: operators, sources, per-source weights,     *)
(* leads and contacts (models.py), the handlers of crud.py and the         *)
(* DistributionEngine of distribution.py.                                  *)
(*                                                                         *)
(* The operators, sources and leads tables are sequences of rows, a row's  *)
(* id being its index (no handler deletes one).  The weight table is a set *)
(* of rows without their id (rows are deleted and re-inserted by           *)
(* set_distribution_config); the contacts table is a bag of rows without   *)
(* their id, which nothing reads.  Strings that are stripped or tested for *)
(* emptiness are sequences of characters.  Every query and every commit is *)
(* one atomic step; a request handler is a sequence of such steps, and     *)
(* several handlers may be in flight (one session per request, main.py):   *)
(* the calls in flight are a bag of call records.                          *)
(***************************************************************************)
EXTENDS Integers, Sequences, FiniteSets, Bags, TLC

\* ------------------------------------------------------------------ bounds
MaxInFlight == 2      \* calls in flight at the same time
MaxContacts == 3      \* rows of the contacts table
MaxStored == 2        \* contact rows found in the table by the load readers

\* ------------------------------------------------------------ input domains
\* Source ids a ContactCreate or a select_operator call may name (3 is the
\* id of no source).
SourceIdInputs == 1..3

\* OperatorCreate values (name, is_active, max_load > 0).
OperatorInputs ==
    { [name |-> "A", is_active |-> TRUE,  max_load |-> 1],
      [name |-> "A", is_active |-> TRUE,  max_load |-> 2],
      [name |-> "B", is_active |-> FALSE, max_load |-> 1] }

\* SourceCreate names.
SourceInputs == {"web", "bot"}

\* Entries of a DistributionConfig: [operator_id, source_id, weight > 0],
\* each with its own source_id (operator 3 never exists).
EntryInputs ==
    { [operator_id |-> 1, source_id |-> 1, weight |-> 1],
      [operator_id |-> 1, source_id |-> 1, weight |-> 2],
      [operator_id |-> 2, source_id |-> 1, weight |-> 1],
      [operator_id |-> 1, source_id |-> 2, weight |-> 1],
      [operator_id |-> 2, source_id |-> 2, weight |-> 2],
      [operator_id |-> 3, source_id |-> 1, weight |-> 1] }

\* DistributionConfig values: a source id and a list of at most two entries.
ConfigInputs ==
    { [source_id |-> s, operators |-> es] :
        s \in 1..3,
        es \in {<<>>} \cup { <<e>> : e \in EntryInputs }
                     \cup { <<e, f>> : e \in EntryInputs, f \in EntryInputs } }

\* An optional string field of a request or a row: not given at all, null,
\* or a string (a sequence of characters).
Unset == [tag |-> "unset"]
NoneValue == [tag |-> "none"]
Str(chars) == [tag |-> "str", chars |-> chars]

\* Values of the optional fields name and phone of a LeadCreate.
FieldInputs ==
    { Unset, NoneValue, Str(<<>>), Str(<<" ">>), Str(<<"x">>), Str(<<"y">>) }

\* The optional fields of a lead the model keeps (email is treated as they
\* are).
LeadFields == {"name", "phone"}

\* Raw lead_external_id values of a ContactCreate request (min_length 1).
RawIdInputs == { <<"a">>, <<" ", "a">>, <<" ">> }

\* ------------------------------------------------------------------- state
VARIABLES
    operators,   \* Seq of [name, is_active, max_load]; id = index
    sources,     \* Seq of [name]; id = index
    weights,     \* set of [operator_id, source_id, weight]
    leads,       \* Seq of [external_id]; id = index
    contacts,    \* bag of [lead_id, source_id, operator_id, status]
    requests     \* calls in flight: bag of call records

vars == <<operators, sources, weights, leads, contacts, requests>>
db == <<operators, sources, weights, leads, contacts>>

\* Optional[...] = None for ids, which start at 1.
None == 0

\* ----------------------------------------------------------------- helpers
RECURSIVE lstrip(_)
lstrip(s) == IF s # <<>> /\ Head(s) = " " THEN lstrip(Tail(s)) ELSE s

RECURSIVE rstrip(_)
rstrip(s) ==
    IF s # <<>> /\ s[Len(s)] = " " THEN rstrip(SubSeq(s, 1, Len(s) - 1)) ELSE s

\* str.strip()
strip(s) == rstrip(lstrip(s))

\* ContactCreate: lead_external_id has min_length 1 and is then stripped by
\* the validator lead_external_id_not_empty.
ContactCreate(source_id, raw) ==
    [source_id |-> source_id, lead_external_id |-> strip(raw)]

\* LeadCreate(external_id=...) validates: min_length 1 (then strip).
LeadCreateValid(external_id) == Len(external_id) >= 1

\* db.query(Source).filter(Source.id == source_id).first()
SourceExists(srcs, source_id) == source_id \in DOMAIN srcs

\* db.query(Lead).filter(Lead.external_id == external_id).first(): id or None
FindLead(ls, external_id) ==
    IF \E i \in DOMAIN ls : ls[i].external_id = external_id
    THEN CHOOSE i \in DOMAIN ls : ls[i].external_id = external_id
    ELSE None

\* Mutant: a field is overwritten by any non-empty string, blank or not.
update_field_no_strip(old, new) ==
    IF new.tag = "str" /\ new.chars # <<>> THEN new ELSE old

\* create_lead, the loop over lead.dict(exclude_unset=True): a field is set
\* when it was given, is not None and str(value).strip() is not empty.
update_field(old, new) ==
    IF new.tag = "str" /\ strip(new.chars) # <<>> THEN new ELSE old

\* Lead(**lead.dict()): a field that was not given is None.
lead_row(external_id, data) ==
    [external_id |-> external_id,
     name |-> IF data.name = Unset THEN NoneValue ELSE data.name,
     phone |-> IF data.phone = Unset THEN NoneValue ELSE data.phone]

\* The LeadCreate a call hands to create_lead: the body of POST /leads/, or
\* LeadCreate(external_id=...) built by get_or_create_lead.
LeadData(r) ==
    IF r.kind = "create_lead" THEN r.input
    ELSE [name |-> Unset, phone |-> Unset]

\* ------------------------------------------------------ admin handlers
\* Mutant: no unique constraint on the operator name.
create_operator_no_unique(ops, operator) ==
    [operators |-> Append(ops, operator), status |-> 201]

\* create_operator: unique name, else IntegrityError -> rollback -> 400.
create_operator(ops, operator) ==
    IF \E i \in DOMAIN ops : ops[i].name = operator.name
    THEN [operators |-> ops, status |-> 400]
    ELSE [operators |-> Append(ops, operator), status |-> 201]

\* create_source: unique name, else IntegrityError -> rollback -> 400.
create_source(srcs, name) ==
    IF \E i \in DOMAIN srcs : srcs[i].name = name
    THEN [sources |-> srcs, status |-> 400]
    ELSE [sources |-> Append(srcs, [name |-> name]), status |-> 201]

\* Mutant: the index only guards against the rows already stored.
UniqueViolation_kept_only(kept, rows) ==
    \E i \in DOMAIN rows : \E w \in kept :
        /\ w.operator_id = rows[i].operator_id
        /\ w.source_id = rows[i].source_id

\* The unique index ix_operator_source_unique over a list of rows to insert
\* on top of the rows kept.
UniqueViolation(kept, rows) ==
    \/ \E i, j \in DOMAIN rows :
          /\ i # j
          /\ rows[i].operator_id = rows[j].operator_id
          /\ rows[i].source_id = rows[j].source_id
    \/ \E i \in DOMAIN rows : \E w \in kept :
          /\ w.operator_id = rows[i].operator_id
          /\ w.source_id = rows[i].source_id

\* Mutant: the delete of the old rows stays applied when the commit fails.
set_distribution_config_no_rollback(ops, srcs, ws, config) ==
    LET operator_ids == { config.operators[i].operator_id :
                              i \in DOMAIN config.operators }
        kept == { w \in ws : w.source_id # config.source_id }
        added == { config.operators[i] : i \in DOMAIN config.operators }
    IN  IF ~SourceExists(srcs, config.source_id)
        THEN [weights |-> ws, status |-> 404]
        ELSE IF operator_ids \ DOMAIN ops # {}
        THEN [weights |-> ws, status |-> 404]
        ELSE IF UniqueViolation(kept, config.operators)
        THEN [weights |-> kept, status |-> 500]
        ELSE [weights |-> kept \cup added, status |-> 201]

\* set_distribution_config: config = [source_id, operators: Seq of
\* [operator_id, source_id, weight]].  The rows added are op_weight.dict(),
\* with the entry's own source_id; delete and inserts are one transaction.
set_distribution_config(ops, srcs, ws, config) ==
    LET operator_ids == { config.operators[i].operator_id :
                              i \in DOMAIN config.operators }
        kept == { w \in ws : w.source_id # config.source_id }
        added == { config.operators[i] : i \in DOMAIN config.operators }
    IN  IF ~SourceExists(srcs, config.source_id)
        THEN [weights |-> ws, status |-> 404]
        ELSE IF operator_ids \ DOMAIN ops # {}
        THEN [weights |-> ws, status |-> 404]
        ELSE IF UniqueViolation(kept, config.operators)
        THEN [weights |-> ws, status |-> 500]
        ELSE [weights |-> kept \cup added, status |-> 201]

\* ------------------------------------------------- DistributionEngine
\* validate_source: TRUE when the source row is found (else it raises
\* SourceNotFoundError).
validate_source(srcs, source_id) == SourceExists(srcs, source_id)

\* load_subquery joined with coalesce(.., 0): the operator's contacts with
\* status new or in_progress, of every source.
current_load(cs, operator_id) ==
    LET rows == { c \in BagToSet(cs) :
                    /\ c.operator_id = operator_id
                    /\ c.status \in {"new", "in_progress"} }
    IN  BagCardinality([c \in rows |-> cs[c]])

\* Mutant: the load of one operator counted over contacts of every status.
get_operator_load_any_status(cs, operator_id) ==
    LET rows == { c \in BagToSet(cs) : c.operator_id = operator_id }
    IN  BagCardinality([c \in rows |-> cs[c]])

\* get_operator_load: the count of the operator's contacts with status new
\* or in_progress.
get_operator_load(cs, operator_id) ==
    LET rows == { c \in BagToSet(cs) :
                    /\ c.operator_id = operator_id
                    /\ c.status \in {"new", "in_progress"} }
    IN  BagCardinality([c \in rows |-> cs[c]])

\* get_operators_load_map: one group per operator of operator_ids that has
\* at least one contact with status new or in_progress.
get_operators_load_map(cs, operator_ids) ==
    LET rows(o) == { c \in BagToSet(cs) :
                       /\ c.operator_id = o
                       /\ c.status \in {"new", "in_progress"} }
    IN  [o \in { id \in operator_ids : rows(id) # {} } |->
            BagCardinality([c \in rows(o) |-> cs[c]])]

\* read_operators: operator_to_response(op, loads_map.get(op.id, 0)) for
\* every operator.
read_operators(ops, cs) ==
    LET loads_map == get_operators_load_map(cs, DOMAIN ops)
    IN  [o \in DOMAIN ops |->
            [id |-> o,
             current_load |-> IF o \in DOMAIN loads_map
                              THEN loads_map[o] ELSE 0]]

\* Mutant: the capacity filter off by one.
under_capacity_inclusive(load, max_load) == load <= max_load

\* The filter of the loop over operators_data.
under_capacity(load, max_load) == load < max_load

\* Mutant: the join without the filter on the requested source.
weight_rows_any_source(ws, operator_id, source_id) ==
    { w \in ws : w.operator_id = operator_id }

\* The weight rows the main query joins to an operator: its rows of the
\* requested source.
weight_rows(ws, operator_id, source_id) ==
    { w \in ws : w.operator_id = operator_id /\ w.source_id = source_id }

\* Mutant: the load is counted over the contacts of the requested source.
RECURSIVE candidates_from_own_source(_, _, _, _, _)
candidates_from_own_source(ops, ws, cs, source_id, from) ==
    IF from > Len(ops) THEN <<>>
    ELSE LET rows == weight_rows(ws, from, source_id)
             rest == candidates_from_own_source(ops, ws, cs, source_id,
                                                from + 1)
             own == { c \in BagToSet(cs) : c.source_id = source_id }
             load == current_load([c \in own |-> cs[c]], from)
         IN  IF /\ rows # {}
                /\ ops[from].is_active
                /\ under_capacity(load, ops[from].max_load)
             THEN <<[operator |-> from,
                     weight |-> (CHOOSE w \in rows : TRUE).weight,
                     current_load |-> load]>> \o rest
             ELSE rest

\* Mutant: the main query without the filter on is_active.
RECURSIVE candidates_from_inactive_too(_, _, _, _, _)
candidates_from_inactive_too(ops, ws, cs, source_id, from) ==
    IF from > Len(ops) THEN <<>>
    ELSE LET rows == weight_rows(ws, from, source_id)
             rest == candidates_from_inactive_too(ops, ws, cs, source_id,
                                                  from + 1)
             load == current_load(cs, from)
         IN  IF rows # {} /\ under_capacity(load, ops[from].max_load)
             THEN <<[operator |-> from,
                     weight |-> (CHOOSE w \in rows : TRUE).weight,
                     current_load |-> load]>> \o rest
             ELSE rest

\* The rows of the main query for operator ids from..Len(ops), in operator
\* id order: joined on the weight row of the source, active operators only;
\* then the capacity filter.  A candidate is [operator, weight, current_load].
RECURSIVE candidates_from(_, _, _, _, _)
candidates_from(ops, ws, cs, source_id, from) ==
    IF from > Len(ops) THEN <<>>
    ELSE LET rows == weight_rows(ws, from, source_id)
             rest == candidates_from(ops, ws, cs, source_id, from + 1)
             load == current_load(cs, from)
         IN  IF /\ rows # {}
                /\ ops[from].is_active
                /\ under_capacity(load, ops[from].max_load)
             THEN <<[operator |-> from,
                     weight |-> (CHOOSE w \in rows : TRUE).weight,
                     current_load |-> load]>> \o rest
             ELSE rest

\* get_available_operators, after validate_source has passed.
get_available_operators(ops, ws, cs, source_id) ==
    candidates_from(ops, ws, cs, source_id, 1)

RECURSIVE total_weight_from(_, _)
total_weight_from(cands, from) ==
    IF from > Len(cands) THEN 0
    ELSE cands[from].weight + total_weight_from(cands, from + 1)

\* sum(op['weight'] for op in available_operators)
total_weight(cands) == total_weight_from(cands, 1)

\* Mutant: the draw can exceed the total weight.
Draws_beyond(total) == 0..(2 * total + 1)

\* random.uniform(0, total_weight) lies in the closed interval
\* [0, total_weight]; draws are counted in halves: r2 = 2 * random_value.
Draws(total) == 0..(2 * total)

\* Mutant: the walk compares strictly and gives None when it is exhausted.
RECURSIVE walk_strict(_, _, _, _)
walk_strict(cands, r2, i, current_weight) ==
    IF i > Len(cands) THEN None
    ELSE IF r2 < 2 * (current_weight + cands[i].weight)
         THEN cands[i].operator
         ELSE walk_strict(cands, r2, i + 1, current_weight + cands[i].weight)

\* Mutant: the walk compares the draw with each weight, not the running sum.
RECURSIVE walk_no_accumulate(_, _, _, _)
walk_no_accumulate(cands, r2, i, current_weight) ==
    IF i > Len(cands) THEN cands[1].operator
    ELSE IF r2 <= 2 * cands[i].weight
         THEN cands[i].operator
         ELSE walk_no_accumulate(cands, r2, i + 1, current_weight)

\* The loop of select_operator from candidate i on, current_weight being the
\* running sum before i; the statement after the loop returns candidate 1.
RECURSIVE walk(_, _, _, _)
walk(cands, r2, i, current_weight) ==
    IF i > Len(cands) THEN cands[1].operator
    ELSE IF r2 <= 2 * (current_weight + cands[i].weight)
         THEN cands[i].operator
         ELSE walk(cands, r2, i + 1, current_weight + cands[i].weight)

\* Mutant: no guard for a total weight that is not positive.
pick_no_guard(cands, r2) == walk(cands, r2, 1, 0)

\* The weighted choice among a non-empty candidate list.
pick(cands, r2) ==
    IF total_weight(cands) <= 0 THEN cands[1].operator
    ELSE walk(cands, r2, 1, 0)

\* Mutant: SourceNotFoundError is swallowed by the broad except clause.
select_operator_swallow(ops, srcs, ws, cs, source_id, fail, r2) ==
    IF ~validate_source(srcs, source_id) \/ fail
    THEN [raised |-> "", operator |-> None,
          logged |-> TRUE, reads |-> <<"sources">>]
    ELSE LET cands == get_available_operators(ops, ws, cs, source_id)
         IN  [raised |-> "",
              operator |-> IF cands = <<>> THEN None ELSE pick(cands, r2),
              logged |-> FALSE, reads |-> <<"sources", "candidates">>]

\* Mutant: no except clause for other exceptions.
select_operator_no_catch(ops, srcs, ws, cs, source_id, fail, r2) ==
    IF ~validate_source(srcs, source_id)
    THEN [raised |-> "SourceNotFoundError", operator |-> None,
          logged |-> FALSE, reads |-> <<"sources">>]
    ELSE IF fail
    THEN [raised |-> "Exception", operator |-> None,
          logged |-> FALSE, reads |-> <<"sources", "candidates">>]
    ELSE LET cands == get_available_operators(ops, ws, cs, source_id)
         IN  [raised |-> "",
              operator |-> IF cands = <<>> THEN None ELSE pick(cands, r2),
              logged |-> FALSE, reads |-> <<"sources", "candidates">>]

\* Mutant: no check for an empty candidate list, so that
\* available_operators[0] raises IndexError.
select_operator_no_empty_check(ops, srcs, ws, cs, source_id, fail, r2) ==
    IF ~validate_source(srcs, source_id)
    THEN [raised |-> "SourceNotFoundError", operator |-> None,
          logged |-> FALSE, reads |-> <<"sources">>]
    ELSE IF fail
    THEN [raised |-> "", operator |-> None,
          logged |-> TRUE, reads |-> <<"sources", "candidates">>]
    ELSE LET cands == get_available_operators(ops, ws, cs, source_id)
         IN  IF cands = <<>>
             THEN [raised |-> "IndexError", operator |-> None,
                   logged |-> FALSE, reads |-> <<"sources", "candidates">>]
             ELSE [raised |-> "", operator |-> pick(cands, r2),
                   logged |-> FALSE, reads |-> <<"sources", "candidates">>]

\* select_operator(source_id).  fail: the candidate query raises something
\* other than SourceNotFoundError, which is printed and becomes None.
\* r2: the draw.  The result: the exception raised ("" for none), the
\* operator returned (None when it raises), whether the error line was
\* printed, and the queries run.
select_operator(ops, srcs, ws, cs, source_id, fail, r2) ==
    IF ~validate_source(srcs, source_id)
    THEN [raised |-> "SourceNotFoundError", operator |-> None,
          logged |-> FALSE, reads |-> <<"sources">>]
    ELSE IF fail
    THEN [raised |-> "", operator |-> None,
          logged |-> TRUE, reads |-> <<"sources", "candidates">>]
    ELSE LET cands == get_available_operators(ops, ws, cs, source_id)
         IN  [raised |-> "",
              operator |-> IF cands = <<>> THEN None ELSE pick(cands, r2),
              logged |-> FALSE, reads |-> <<"sources", "candidates">>]

\* The draws select_operator can make in the current tables.
DrawsFor(ops, srcs, ws, cs, source_id) ==
    LET total == total_weight(get_available_operators(ops, ws, cs, source_id))
    IN  IF validate_source(srcs, source_id) /\ total > 0
        THEN Draws(total)
        ELSE {0}

\* ----------------------------------------------------- initial states
\* The tables before any contact arrives are those left by the admin
\* handlers run on a setup script (as the fixture of tests/test_crm.py does:
\* two operators, a source, its weights), starting from empty tables.
RECURSIVE RunOperators(_, _)
RunOperators(ops, script) ==
    IF script = <<>> THEN ops
    ELSE RunOperators(create_operator(ops, Head(script)).operators, Tail(script))

RECURSIVE RunSources(_, _)
RunSources(srcs, script) ==
    IF script = <<>> THEN srcs
    ELSE RunSources(create_source(srcs, Head(script)).sources, Tail(script))

RECURSIVE RunConfigs(_, _, _, _)
RunConfigs(ops, srcs, ws, script) ==
    IF script = <<>> THEN ws
    ELSE RunConfigs(ops, srcs,
                    set_distribution_config(ops, srcs, ws, Head(script)).weights,
                    Tail(script))

Entry(operator_id, source_id, weight) ==
    [operator_id |-> operator_id, source_id |-> source_id, weight |-> weight]

OperatorScripts ==
    { <<[name |-> "A", is_active |-> TRUE, max_load |-> 1],
        [name |-> "B", is_active |-> TRUE, max_load |-> 2]>>,
      <<[name |-> "A", is_active |-> TRUE, max_load |-> 1],
        [name |-> "B", is_active |-> FALSE, max_load |-> 1]>>,
      <<[name |-> "A", is_active |-> TRUE, max_load |-> 2],
        [name |-> "A", is_active |-> TRUE, max_load |-> 1]>> }

SourceScripts == { <<"web", "bot">> }

ConfigScripts ==
    { <<>>,
      <<[source_id |-> 1, operators |-> <<Entry(1, 1, 2), Entry(2, 1, 1)>>]>>,
      <<[source_id |-> 1, operators |-> <<Entry(1, 1, 1)>>],
        [source_id |-> 2, operators |-> <<Entry(2, 2, 2)>>]>>,
      <<[source_id |-> 1, operators |-> <<Entry(1, 1, 2), Entry(2, 1, 1)>>],
        [source_id |-> 2, operators |-> <<Entry(1, 2, 1)>>]>> }

Init ==
    /\ \E os \in OperatorScripts, ss \in SourceScripts, cs \in ConfigScripts :
          /\ operators = RunOperators(<<>>, os)
          /\ sources = RunSources(<<>>, ss)
          /\ weights = RunConfigs(RunOperators(<<>>, os), RunSources(<<>>, ss),
                                  {}, cs)
    /\ leads = <<>>
    /\ contacts = EmptyBag
    /\ requests = EmptyBag

\* ------------------------------------------------------- calls in flight
\* The request body of a call that has one the model keeps.
NoInput == [body |-> "none"]

\* The answer of a call when the model keeps none.
NoResult == [body |-> "none"]

Call(kind, source_id, external_id, pc, status) ==
    [kind |-> kind, source_id |-> source_id, external_id |-> external_id,
     pc |-> pc, lead_id |-> None, operator |-> None, status |-> status,
     raised |-> "", logged |-> FALSE, reads |-> <<>>, input |-> NoInput,
     result |-> NoResult]

Calls == BagToSet(requests)
InFlight == BagCardinality(requests)
Begin(r) == requests (+) SetToBag({r})
Step(r, next) == (requests (-) SetToBag({r})) (+) SetToBag({next})

\* create_contact invocations that may still insert a contact.
Pending ==
    LET rs == { r \in Calls : r.kind = "create_contact" /\ r.pc # "done" }
    IN  BagCardinality([r \in rs |-> requests[r]])

\* Mutant: create_contact without its own source check.
CreateContactBegin_unchecked(k, source_id, raw) ==
    LET contact == ContactCreate(source_id, raw)
    IN  /\ InFlight < k
        /\ BagCardinality(contacts) + Pending < MaxContacts
        /\ requests' = Begin(
              Call("create_contact", contact.source_id,
                   contact.lead_external_id, "get_or_create_lead", 0))
        /\ UNCHANGED db

\* create_contact, to the source check: 404 when the source does not exist.
CreateContactBegin(k, source_id, raw) ==
    LET contact == ContactCreate(source_id, raw)
    IN  /\ InFlight < k
        /\ BagCardinality(contacts) + Pending < MaxContacts
        /\ requests' = Begin(
              IF SourceExists(sources, contact.source_id)
              THEN Call("create_contact", contact.source_id,
                        contact.lead_external_id, "get_or_create_lead", 0)
              ELSE Call("create_contact", contact.source_id,
                        contact.lead_external_id, "done", 404))
        /\ UNCHANGED db

\* get_or_create_lead(db, external_id) with no kwargs: the first lookup.  A
\* lead found is committed unchanged; else LeadCreate is built (twice with
\* the same data when it fails to validate, and create_contact answers 500).
GetOrCreateLead(r) ==
    LET existing == FindLead(leads, r.external_id)
    IN  /\ r.kind = "create_contact" /\ r.pc = "get_or_create_lead"
        /\ requests' = Step(r,
              IF existing # None
              THEN [r EXCEPT !.lead_id = existing, !.pc = "select_operator"]
              ELSE IF ~LeadCreateValid(r.external_id)
              THEN [r EXCEPT !.pc = "done", !.status = 500]
              ELSE [r EXCEPT !.pc = "create_lead"])
        /\ UNCHANGED db

\* create_lead: its own lookup.  For create_contact an existing lead is
\* returned as it is (only external_id is set in the LeadCreate, so nothing
\* is updated); for POST /leads/ the update follows.
CreateLeadLookup(r) ==
    LET existing == FindLead(leads, r.external_id)
    IN  /\ r.pc = "create_lead"
        /\ requests' = Step(r,
              IF existing = None
              THEN [r EXCEPT !.pc = "add_lead"]
              ELSE IF r.kind = "create_contact"
              THEN [r EXCEPT !.lead_id = existing, !.pc = "select_operator"]
              ELSE [r EXCEPT !.lead_id = existing, !.pc = "update_lead"])
        /\ UNCHANGED db

\* Mutant: no unique constraint on external_id, the insert always succeeds.
AddLead_no_unique(r) ==
    LET after(id) == IF r.kind = "create_contact"
                     THEN [r EXCEPT !.lead_id = id, !.pc = "select_operator"]
                     ELSE [r EXCEPT !.lead_id = id, !.pc = "done",
                                    !.status = 201]
    IN  /\ r.pc = "add_lead"
        /\ leads' = Append(leads, lead_row(r.external_id, LeadData(r)))
        /\ requests' = Step(r, after(Len(leads) + 1))
        /\ UNCHANGED <<operators, sources, weights, contacts>>

\* create_lead: add and commit; on IntegrityError (external_id is unique)
\* roll back and return the lead that is there.
AddLead(r) ==
    LET existing == FindLead(leads, r.external_id)
        after(id) == IF r.kind = "create_contact"
                     THEN [r EXCEPT !.lead_id = id, !.pc = "select_operator"]
                     ELSE [r EXCEPT !.lead_id = id, !.pc = "done",
                                    !.status = 201]
    IN  /\ r.pc = "add_lead"
        /\ IF existing # None
           THEN /\ leads' = leads
                /\ requests' = Step(r, after(existing))
           ELSE /\ leads' = Append(leads, lead_row(r.external_id, LeadData(r)))
                /\ requests' = Step(r, after(Len(leads) + 1))
        /\ UNCHANGED <<operators, sources, weights, contacts>>

\* create_contact: distribution_engine.select_operator(contact.source_id);
\* SourceNotFoundError becomes 404.
SelectOperator(r) ==
    /\ r.kind = "create_contact" /\ r.pc = "select_operator"
    /\ \E fail \in BOOLEAN,
          r2 \in DrawsFor(operators, sources, weights, contacts, r.source_id) :
          LET res == select_operator(operators, sources, weights, contacts,
                                     r.source_id, fail, r2)
          IN  requests' = Step(r,
                 IF res.raised # ""
                 THEN [r EXCEPT !.pc = "done", !.status = 404]
                 ELSE [r EXCEPT !.operator = res.operator,
                                !.logged = res.logged,
                                !.pc = "add_contact"])
    /\ UNCHANGED db

\* Mutant: the contact row is stored with another status than the default.
AddContact_closed(r) ==
    /\ r.kind = "create_contact" /\ r.pc = "add_contact"
    /\ contacts' = contacts (+) SetToBag({
          [lead_id |-> r.lead_id, source_id |-> r.source_id,
           operator_id |-> r.operator, status |-> "closed"]})
    /\ requests' = Step(r, [r EXCEPT !.pc = "done", !.status = 201])
    /\ UNCHANGED <<operators, sources, weights, leads>>

\* create_contact: the contact row (status defaults to "new") and commit.
AddContact(r) ==
    /\ r.kind = "create_contact" /\ r.pc = "add_contact"
    /\ contacts' = contacts (+) SetToBag({
          [lead_id |-> r.lead_id, source_id |-> r.source_id,
           operator_id |-> r.operator, status |-> "new"]})
    /\ requests' = Step(r, [r EXCEPT !.pc = "done", !.status = 201])
    /\ UNCHANGED <<operators, sources, weights, leads>>

\* Mutant: select_operator reserves the operator it returns by inserting a
\* contact row for it.
SelectOperatorCall_reserving(k, source_id) ==
    /\ InFlight < k
    /\ \E fail \in BOOLEAN,
          r2 \in DrawsFor(operators, sources, weights, contacts, source_id) :
          LET res == select_operator(operators, sources, weights, contacts,
                                     source_id, fail, r2)
          IN  /\ requests' = Begin(
                    [Call("select_operator", source_id, <<>>, "done", 0)
                        EXCEPT !.operator = res.operator,
                               !.raised = res.raised,
                               !.logged = res.logged, !.reads = res.reads])
              /\ contacts' =
                    IF res.operator = None THEN contacts
                    ELSE contacts (+) SetToBag({
                            [lead_id |-> None, source_id |-> source_id,
                             operator_id |-> res.operator, status |-> "new"]})
    /\ UNCHANGED <<operators, sources, weights, leads>>

\* A direct call of DistributionEngine.select_operator(source_id).
SelectOperatorCall(k, source_id) ==
    /\ InFlight < k
    /\ \E fail \in BOOLEAN,
          r2 \in DrawsFor(operators, sources, weights, contacts, source_id) :
          LET res == select_operator(operators, sources, weights, contacts,
                                     source_id, fail, r2)
          IN  requests' = Begin(
                 [Call("select_operator", source_id, <<>>, "done", 0)
                     EXCEPT !.operator = res.operator, !.raised = res.raised,
                            !.logged = res.logged, !.reads = res.reads])
    /\ UNCHANGED db

\* The caller takes the result of a finished call.
Return(r) ==
    /\ r.pc = "done"
    /\ requests' = requests (-) SetToBag({r})
    /\ UNCHANGED db

Next ==
    \/ \E s \in SourceIdInputs, raw \in RawIdInputs :
          CreateContactBegin(MaxInFlight, s, raw)
    \/ \E r \in Calls : GetOrCreateLead(r)
    \/ \E r \in Calls : CreateLeadLookup(r)
    \/ \E r \in Calls : AddLead(r)
    \/ \E r \in Calls : SelectOperator(r)
    \/ \E r \in Calls : AddContact(r)
    \/ \E s \in SourceIdInputs : SelectOperatorCall(MaxInFlight, s)
    \/ \E r \in Calls : Return(r)

Spec == Init /\ [][Next]_vars

\* create_contact invocations strictly one after another: a call begins
\* only when no other is in flight.
NextSeq ==
    \/ \E s \in SourceIdInputs, raw \in RawIdInputs :
          CreateContactBegin(1, s, raw)
    \/ \E r \in Calls : GetOrCreateLead(r)
    \/ \E r \in Calls : CreateLeadLookup(r)
    \/ \E r \in Calls : AddLead(r)
    \/ \E r \in Calls : SelectOperator(r)
    \/ \E r \in Calls : AddContact(r)
    \/ \E s \in SourceIdInputs : SelectOperatorCall(1, s)
    \/ \E r \in Calls : Return(r)

SpecSeq == Init /\ [][NextSeq]_vars

\* Empty tables: the state after Base.metadata.create_all on a new file.
InitEmpty ==
    /\ operators = <<>>
    /\ sources = <<>>
    /\ weights = {}
    /\ leads = <<>>
    /\ contacts = EmptyBag
    /\ requests = EmptyBag

\* ------------------------------------------------------------ POST /leads/
\* create_lead(db, lead) from the endpoint: LeadCreate has validated the
\* body (external_id of length >= 1, then stripped).
CreateLeadBegin(k, raw, name, phone) ==
    /\ InFlight < k
    /\ Len(raw) >= 1
    /\ requests' = Begin(
          [Call("create_lead", None, strip(raw), "create_lead", 0)
              EXCEPT !.input = [name |-> name, phone |-> phone]])
    /\ UNCHANGED db

\* create_lead, the lead found: the loop over update_data, and the commit.
UpdateLead(r) ==
    /\ r.kind = "create_lead" /\ r.pc = "update_lead"
    /\ leads' = [leads EXCEPT ![r.lead_id] =
                    [f \in DOMAIN @ |->
                        IF f \in LeadFields
                        THEN update_field(@[f], r.input[f]) ELSE @[f]]]
    /\ requests' = Step(r, [r EXCEPT !.pc = "done", !.status = 201])
    /\ UNCHANGED <<operators, sources, weights, contacts>>

\* The lead endpoint called again and again, each answer taken before the
\* next call.
NextLeads ==
    \/ \E raw \in RawIdInputs, name \in FieldInputs, phone \in FieldInputs :
          CreateLeadBegin(1, raw, name, phone)
    \/ \E r \in Calls : CreateLeadLookup(r)
    \/ \E r \in Calls : UpdateLead(r)
    \/ \E r \in Calls : AddLead(r)
    \/ \E r \in Calls : Return(r)

SpecLeads == InitEmpty /\ [][NextLeads]_vars

\* ------------------------------------------- leads, calls interleaved
\* One operator configured for the one source, no lead and no contact.
InitRace ==
    /\ operators = << [name |-> "A", is_active |-> TRUE, max_load |-> 1] >>
    /\ sources = << [name |-> "web"] >>
    /\ weights = { Entry(1, 1, 1) }
    /\ leads = <<>>
    /\ contacts = EmptyBag
    /\ requests = EmptyBag

\* POST /leads/ and POST /contacts/ with two calls in flight, their queries
\* and commits interleaved.
NextRace ==
    \/ \E s \in SourceIdInputs, raw \in RawIdInputs :
          CreateContactBegin(2, s, raw)
    \/ \E raw \in RawIdInputs, name \in {Unset, Str(<<"x">>)} :
          CreateLeadBegin(2, raw, name, Unset)
    \/ \E r \in Calls : GetOrCreateLead(r)
    \/ \E r \in Calls : CreateLeadLookup(r)
    \/ \E r \in Calls : AddLead(r)
    \/ \E r \in Calls : UpdateLead(r)
    \/ \E r \in Calls : SelectOperator(r)
    \/ \E r \in Calls : AddContact(r)
    \/ \E r \in Calls : Return(r)

SpecRace == InitRace /\ [][NextRace]_vars

\* ------------------------------------------------------ load readers
\* The status column is a plain String (models.py 65): the readers count
\* whatever rows the table holds, also rows whose status was set to
\* something else than the default.
StatusValues == {"new", "in_progress", "closed"}

\* Contact rows of the one lead and source, with or without an operator.
StoredRows ==
    { [lead_id |-> 1, source_id |-> 1, operator_id |-> o, status |-> st] :
        o \in {None, 1, 2}, st \in StatusValues }

RECURSIVE BagOf(_)
BagOf(rows) ==
    IF rows = <<>> THEN EmptyBag
    ELSE BagOf(Tail(rows)) (+) SetToBag({Head(rows)})

\* Two active operators configured for the one source, a lead, and up to
\* MaxStored contact rows.
InitLoad ==
    /\ operators = << [name |-> "A", is_active |-> TRUE, max_load |-> 2],
                      [name |-> "B", is_active |-> TRUE, max_load |-> 2] >>
    /\ sources = << [name |-> "web"] >>
    /\ weights = { Entry(1, 1, 1), Entry(2, 1, 2) }
    /\ leads = << lead_row(<<"a">>, [name |-> Unset, phone |-> Unset]) >>
    /\ \E n \in 0..MaxStored : \E rows \in [1..n -> StoredRows] :
          contacts = BagOf(rows)
    /\ requests = EmptyBag

\* GET /operators/
ReadOperators(k) ==
    /\ InFlight < k
    /\ requests' = Begin([Call("read_operators", None, <<>>, "done", 200)
                            EXCEPT !.result = read_operators(operators,
                                                             contacts)])
    /\ UNCHANGED db

\* GET /operators/{operator_id}: 404 when there is no such operator.
ReadOperator(k, operator_id) ==
    /\ InFlight < k
    /\ requests' = Begin(
          IF operator_id \in DOMAIN operators
          THEN [Call("read_operator", None, <<>>, "done", 200)
                  EXCEPT !.operator = operator_id,
                         !.result = [id |-> operator_id,
                                     current_load |->
                                        get_operator_load(contacts,
                                                          operator_id)]]
          ELSE [Call("read_operator", None, <<>>, "done", 404)
                  EXCEPT !.operator = operator_id])
    /\ UNCHANGED db

\* DistributionEngine.get_available_operators(source_id) of a source that
\* exists, the candidate list kept.
GetAvailableOperators(k, source_id) ==
    /\ InFlight < k
    /\ validate_source(sources, source_id)
    /\ requests' = Begin(
          [Call("get_available_operators", source_id, <<>>, "done", 0)
              EXCEPT !.result = get_available_operators(operators, weights,
                                                        contacts, source_id)])
    /\ UNCHANGED db

NextLoad ==
    \/ ReadOperators(1)
    \/ \E o \in 1..3 : ReadOperator(1, o)
    \/ \E s \in SourceIdInputs : GetAvailableOperators(1, s)
    \/ \E r \in Calls : Return(r)

SpecLoad == InitLoad /\ [][NextLoad]_vars

\* ------------------------------------------------------ administration
\* POST /operators/: a single commit.
CreateOperator(k, operator) ==
    LET res == create_operator(operators, operator)
    IN  /\ InFlight < k
        /\ operators' = res.operators
        /\ requests' = Begin([Call("create_operator", None, <<>>, "done",
                                   res.status) EXCEPT !.input = operator])
        /\ UNCHANGED <<sources, weights, leads, contacts>>

\* POST /sources/: a single commit.
CreateSource(k, name) ==
    LET res == create_source(sources, name)
    IN  /\ InFlight < k
        /\ sources' = res.sources
        /\ requests' = Begin([Call("create_source", None, <<>>, "done",
                                   res.status) EXCEPT !.input = [name |-> name]])
        /\ UNCHANGED <<operators, weights, leads, contacts>>

\* POST /distribution/config/: the source and operator queries read rows
\* that are never deleted, and the delete and the inserts are one
\* transaction, so the handler is one step.
SetDistributionConfig(k, config) ==
    LET res == set_distribution_config(operators, sources, weights, config)
    IN  /\ InFlight < k
        /\ weights' = res.weights
        /\ requests' = Begin([Call("set_distribution_config", config.source_id,
                                   <<>>, "done", res.status)
                                 EXCEPT !.input = config])
        /\ UNCHANGED <<operators, sources, leads, contacts>>

\* The admin endpoints called one after another, each answer taken before
\* the next call.
NextAdmin ==
    \/ \E operator \in OperatorInputs : CreateOperator(1, operator)
    \/ \E name \in SourceInputs : CreateSource(1, name)
    \/ \E config \in ConfigInputs : SetDistributionConfig(1, config)
    \/ \E r \in Calls : Return(r)

SpecAdmin == InitEmpty /\ [][NextAdmin]_vars

\* ------------------------------------------------- the choice in isolation
\* The weight column is a plain Integer (models.py 49): the engine reads
\* whatever rows the table holds, also rows that the request schema would
\* have refused.
WeightValues == {-1, 0, 1, 2}

\* Three active operators without contacts, one source, and for any subset
\* of the operators a weight row for the source.
InitPicker ==
    /\ operators = << [name |-> "A", is_active |-> TRUE, max_load |-> 1],
                      [name |-> "B", is_active |-> TRUE, max_load |-> 1],
                      [name |-> "C", is_active |-> TRUE, max_load |-> 1] >>
    /\ sources = << [name |-> "web"] >>
    /\ \E configured \in SUBSET (1..3), weight \in [1..3 -> WeightValues] :
          weights = { Entry(o, 1, weight[o]) : o \in configured }
    /\ leads = <<>>
    /\ contacts = EmptyBag
    /\ requests = EmptyBag

\* select_operator(source_id) called on the engine, the draw kept with the
\* result.
PickCall(k, source_id) ==
    /\ InFlight < k
    /\ \E fail \in BOOLEAN,
          r2 \in DrawsFor(operators, sources, weights, contacts, source_id) :
          LET res == select_operator(operators, sources, weights, contacts,
                                     source_id, fail, r2)
          IN  requests' = Begin(
                 [Call("pick", source_id, <<>>, "done", 0)
                     EXCEPT !.operator = res.operator, !.raised = res.raised,
                            !.logged = res.logged, !.reads = res.reads,
                            !.input = [draw |-> r2]])
    /\ UNCHANGED db

\* Values of random_value handed to the loop, also beyond twice the largest
\* total weight (12 half-units).
WalkDrawInputs == 0..13

\* The loop of select_operator and the statement after it (distribution.py
\* 86-93) run on the candidates of a source with positive total weight, for
\* any random_value.
WalkCall(k, source_id) ==
    LET cands == get_available_operators(operators, weights, contacts,
                                         source_id)
    IN  /\ InFlight < k
        /\ validate_source(sources, source_id)
        /\ cands # <<>>
        /\ total_weight(cands) > 0
        /\ \E r2 \in WalkDrawInputs :
              requests' = Begin(
                 [Call("walk", source_id, <<>>, "done", 0)
                     EXCEPT !.operator = walk(cands, r2, 1, 0),
                            !.input = [draw |-> r2]])
        /\ UNCHANGED db

NextPicker ==
    \/ \E s \in SourceIdInputs : PickCall(1, s)
    \/ \E s \in SourceIdInputs : WalkCall(1, s)
    \/ \E r \in Calls : Return(r)

SpecPicker == InitPicker /\ [][NextPicker]_vars

\* ------------------------------------------------------------ properties
\* The number of copies of r among the calls in flight.
Count(bag, r) == IF r \in DOMAIN bag THEN bag[r] ELSE 0

\* The operators configured for a source that could take a contact now.
Eligible(source_id) ==
    { o \in DOMAIN operators :
        /\ \E w \in weights : w.operator_id = o /\ w.source_id = source_id
        /\ operators[o].is_active
        /\ current_load(contacts, o) < operators[o].max_load }

\* C1: in every reachable state, concurrent create_contact invocations
\* included, no operator has more new/in_progress contacts than its max_load.
C1_NeverOverloaded ==
    \A o \in DOMAIN operators :
        current_load(contacts, o) <= operators[o].max_load

\* C2: when create_contact invocations run strictly one after another, every
\* operator's count of new/in_progress contacts is at most its max_load.
C2_SequentialWithinCapacity ==
    /\ InFlight <= 1
    /\ \A o \in DOMAIN operators :
          current_load(contacts, o) <= operators[o].max_load

\* C2 witness: source 1 has configured active operators, all of them hold
\* exactly max_load contacts, and a later contact of source 1 is unassigned.
C2_Witness ==
    /\ \E w \in weights : w.source_id = 1 /\ operators[w.operator_id].is_active
    /\ \A w \in weights :
          (w.source_id = 1 /\ operators[w.operator_id].is_active)
             => current_load(contacts, w.operator_id)
                   = operators[w.operator_id].max_load
    /\ \E c \in BagToSet(contacts) : c.source_id = 1 /\ c.operator_id = None

\* C10: with at most MaxInFlight calls in flight at the same time, an
\* operator's count of new/in_progress contacts never exceeds
\* max_load + MaxInFlight - 1.
C10_OverloadBounded ==
    \A o \in DOMAIN operators :
        current_load(contacts, o) <= operators[o].max_load + MaxInFlight - 1

\* C10 witness: the bound is reached, above max_load.
C10_Witness ==
    \E o \in DOMAIN operators :
        /\ MaxInFlight > 1
        /\ current_load(contacts, o) = operators[o].max_load + MaxInFlight - 1

\* A call record that this step has put among the calls in flight.
Put(r) == Count(requests', r) > Count(requests, r)

\* r holds an operator that select_operator has returned in this step, to a
\* direct caller or to create_contact.
Selected(r) ==
    /\ Put(r)
    /\ r.operator # None
    /\ r.kind = "select_operator" \/ r.pc = "add_contact"

\* r is the result of a direct call of select_operator made in this step.
Called(r) == Put(r) /\ r.kind = "select_operator"

\* C3: whenever select_operator returns an operator, it is active, has a
\* weight row of exactly that source with a positive weight, and at the
\* moment of the read had fewer new/in_progress contacts than its max_load.
C3_SelectedIsEligible ==
    [][\A r \in BagToSet(requests') :
          Selected(r) =>
             /\ r.operator \in DOMAIN operators
             /\ operators[r.operator].is_active
             /\ \E w \in weights : /\ w.operator_id = r.operator
                                   /\ w.source_id = r.source_id
                                   /\ w.weight > 0
             /\ current_load(contacts, r.operator)
                   < operators[r.operator].max_load]_vars

\* C3 witness: select_operator has returned an operator.
C3_Witness ==
    \E r \in Calls : /\ r.operator # None
                     /\ r.kind = "select_operator" \/ r.pc = "add_contact"

C5_NoCandidateGivesNone ==
    [][\A r \in BagToSet(requests') :
          (/\ Called(r)
           /\ SourceExists(sources, r.source_id)
           /\ Eligible(r.source_id) = {})
             => r.operator = None /\ r.raised = ""]_vars

\* C5 witness: select_operator has returned None, without a failure, for an
\* existing source whose configured operators are all inactive or full.
C5_Witness ==
    \E r \in Calls :
        /\ r.kind = "select_operator"
        /\ SourceExists(sources, r.source_id)
        /\ \E w \in weights : w.source_id = r.source_id
        /\ Eligible(r.source_id) = {}
        /\ r.operator = None /\ r.raised = "" /\ ~r.logged

\* C6: create_contact for an existing source always ends by recording the
\* contact (201), also when no operator is selected.
C6_ExistingSourceAlwaysRecorded ==
    \A r \in Calls :
        (/\ r.kind = "create_contact"
         /\ r.pc = "done"
         /\ SourceExists(sources, r.source_id))
           => r.status = 201

\* C7: create_contact with a source_id that does not exist ends with 404 at
\* once and leaves every table unchanged.
C7_UnknownSourceRejected ==
    [][\A r \in BagToSet(requests') :
          (/\ Put(r)
           /\ r.kind = "create_contact"
           /\ ~SourceExists(sources, r.source_id))
             => /\ r.pc = "done"
                /\ r.status = 404
                /\ r.lead_id = None
                /\ db' = db]_vars

\* C7 witness: a create_contact for an unknown source has ended, while a
\* lead and a contact exist.
C7_Witness ==
    /\ leads # <<>>
    /\ contacts # EmptyBag
    /\ \E r \in Calls : /\ r.kind = "create_contact"
                        /\ ~SourceExists(sources, r.source_id)
                        /\ r.status = 404

\* C8: select_operator raises nothing but SourceNotFoundError (and that for
\* an unknown source only); a failure of the candidate query for an existing
\* source is printed and gives None.
C8_OnlySourceNotFoundRaised ==
    \A r \in Calls :
        r.kind = "select_operator"
           => /\ r.raised \in {"", "SourceNotFoundError"}
              /\ r.raised # "" => ~SourceExists(sources, r.source_id)
              /\ SourceExists(sources, r.source_id) => r.raised = ""
              /\ r.logged => r.operator = None /\ r.raised = ""

\* C8 witness: the candidate query failed for a source that has an eligible
\* operator, and select_operator returned None.
C8_Witness ==
    \E r \in Calls :
        /\ r.kind = "select_operator"
        /\ r.logged
        /\ Eligible(r.source_id) # {}
        /\ r.operator = None /\ r.raised = ""

\* C9: whenever the candidate list is not empty, select_operator returns
\* the operator of one of the candidates, whatever the draw; with one
\* candidate it returns that one.
C9_PicksACandidate ==
    [][\A r \in BagToSet(requests') :
          (/\ Called(r)
           /\ SourceExists(sources, r.source_id)
           /\ ~r.logged)
             => LET cands == get_available_operators(operators, weights,
                                                     contacts, r.source_id)
                IN  cands # <<>>
                       => /\ r.raised = ""
                          /\ \E i \in DOMAIN cands :
                                cands[i].operator = r.operator]_vars

\* C9 witness: select_operator has returned the second of two candidates.
C9_Witness ==
    \E r \in Calls :
        /\ r.kind = "select_operator"
        /\ Len(get_available_operators(operators, weights, contacts,
                                       r.source_id)) = 2
        /\ r.operator = 2

\* --------------------------------------------------- C11, C12, C18 (admin)
\* The answer of a set_distribution_config call put by this step.
Configured(r) == Put(r) /\ r.kind = "set_distribution_config"

\* The (operator_id, weight) pairs of the weight rows of one source.
RowsOf(ws, source_id) ==
    { <<w.operator_id, w.weight>> : w \in { x \in ws : x.source_id = source_id } }

\* The (operator_id, weight) pairs listed by a config.
EntriesOf(config) ==
    { <<config.operators[i].operator_id, config.operators[i].weight>> :
          i \in DOMAIN config.operators }

\* C11: after a successful set_distribution_config call the weight rows of
\* config.source_id are exactly the entries of config.operators, whatever
\* source_id the entries themselves carry.
C11_RowsAreTheEntries ==
    [][\A r \in BagToSet(requests') :
          (Configured(r) /\ r.status = 201)
              => RowsOf(weights', r.input.source_id) = EntriesOf(r.input)]_vars

\* C12: a set_distribution_config call that fails (unknown source, unknown
\* operator id, uniqueness violation) leaves the weight rows of every source
\* as they were.
C12_FailureChangesNothing ==
    [][\A r \in BagToSet(requests') :
          (Configured(r) /\ r.status # 201) => weights' = weights]_vars

\* C12 witness: a call failed on the unique index although the source had
\* rows for the delete to remove.
C12_Witness ==
    \E r \in Calls :
        /\ r.kind = "set_distribution_config"
        /\ r.status = 500
        /\ RowsOf(weights, r.input.source_id) # {}

\* C18: a create_operator call with a name already used is answered 400 and
\* leaves the operators as they were, so operator names stay pairwise
\* distinct.
C18_DuplicateNameRejected ==
    [][/\ \A r \in BagToSet(requests') :
             (Put(r) /\ r.kind = "create_operator"
                     /\ \E i \in DOMAIN operators :
                            operators[i].name = r.input.name)
                 => (r.status = 400 /\ operators' = operators)
       /\ \A i, j \in DOMAIN operators' :
             operators'[i].name = operators'[j].name => i = j]_vars

\* C18 witness: a duplicate name was answered 400.
C18_Witness ==
    \E r \in Calls :
        /\ r.kind = "create_operator"
        /\ r.status = 400
        /\ \E i \in DOMAIN operators : operators[i].name = r.input.name

\* ------------------------------------------- C13, C14, C19, C20 (the choice)
\* The candidate list select_operator builds for a source in this state.
Candidates(source_id) ==
    get_available_operators(operators, weights, contacts, source_id)

\* The result, put by this step, of a select_operator call whose candidate
\* query did not fail.
Picked(r) == Put(r) /\ r.kind = "pick" /\ ~r.logged

\* The sum of the weights of the first i candidates.
RECURSIVE Prefix(_, _)
Prefix(cands, i) ==
    IF i = 0 THEN 0 ELSE Prefix(cands, i - 1) + cands[i].weight

\* The candidates whose running sum is at least the draw.
Reaching(cands, r2) == { i \in DOMAIN cands : 2 * Prefix(cands, i) >= r2 }

\* The least index of a non-empty set of indices.
First(indices) == CHOOSE i \in indices : \A j \in indices : i <= j

NoNegativeWeight(cands) == \A i \in DOMAIN cands : cands[i].weight >= 0

\* The draws in (0, total], one for each half-unit cell ((r2 - 1)/2, r2/2]
\* on which the choice is constant, that select candidate i.
CellsOf(cands, i) ==
    { r2 \in 1..(2 * total_weight(cands)) : pick(cands, r2) = cands[i].operator }

\* C13: with a non-empty candidate list whose total weight is at most 0,
\* select_operator returns the operator of the first candidate and raises
\* nothing.
C13_NonPositiveTotalGivesFirst ==
    [][\A r \in BagToSet(requests') :
          (/\ Picked(r)
           /\ Candidates(r.source_id) # <<>>
           /\ total_weight(Candidates(r.source_id)) <= 0)
              => (/\ r.raised = ""
                  /\ r.operator = Candidates(r.source_id)[1].operator)]_vars

\* C13 witness: the first of several candidates was returned although a
\* later one has a positive weight.
C13_Witness ==
    \E r \in Calls :
        LET cands == Candidates(r.source_id)
        IN  /\ r.kind = "pick" /\ ~r.logged
            /\ Len(cands) >= 2
            /\ total_weight(cands) <= 0
            /\ cands[2].weight > 0
            /\ r.operator = cands[1].operator

C19_FirstReaching ==
    \A r \in BagToSet(requests') :
        LET cands == Candidates(r.source_id)
        IN  (/\ Picked(r)
             /\ cands # <<>>
             /\ total_weight(cands) > 0
             /\ r.input.draw < 2 * total_weight(cands))
                => (/\ Reaching(cands, r.input.draw) # {}
                    /\ r.operator =
                          cands[First(Reaching(cands, r.input.draw))].operator)

EngineStep ==
    \/ \E r \in BagToSet(requests') : Called(r)
    \/ \E r \in Calls :
          r.pc = "select_operator" /\ Count(requests', r) < Count(requests, r)

\* C15: select_operator (and get_available_operators, which it runs) only
\* reads: whatever it returns or raises, operators, sources, weight rows,
\* leads and contacts (every contact's status and operator_id included) are
\* unchanged.  The engine has no variable of its own to carry from one call
\* to the next: the tables are all the state there is.
C15_PureRead == [][EngineStep => db' = db]_vars

\* C15 witness: one call has returned an operator and another has raised,
\* and there is still no contact.
C15_Witness ==
    \E r, q \in Calls :
        /\ r.kind = "select_operator" /\ r.operator # None
        /\ q.kind = "select_operator" /\ q.raised # ""
        /\ contacts = EmptyBag

\* ------------------------------------------------------------------- C16
\* The active operators with a weight row of the source.
ConfiguredActive(source_id) ==
    { o \in DOMAIN operators :
        /\ operators[o].is_active
        /\ \E w \in weights : w.operator_id = o /\ w.source_id = source_id }

\* sum(max_load) over the configured active operators with id up to n.
RECURSIVE SumMaxUpTo(_, _)
SumMaxUpTo(source_id, n) ==
    IF n = 0 THEN 0
    ELSE SumMaxUpTo(source_id, n - 1)
           + (IF n \in ConfiguredActive(source_id)
              THEN operators[n].max_load ELSE 0)

SumMax(source_id) == SumMaxUpTo(source_id, Len(operators))

\* Every contact so far came from this source.
OnlySource(source_id) ==
    \A c \in BagToSet(contacts) : c.source_id = source_id

\* The number of contacts that have an operator.
Assigned ==
    LET rows == { c \in BagToSet(contacts) : c.operator_id # None }
    IN  BagCardinality([c \in rows |-> contacts[c]])

\* Every configured active operator of the source holds exactly max_load.
AllFull(source_id) ==
    \A o \in ConfiguredActive(source_id) :
        current_load(contacts, o) = operators[o].max_load

\* r is a create_contact invocation to which select_operator has answered in
\* this step, all contacts so far being of its source.
Answered(r) ==
    /\ Put(r)
    /\ r.kind = "create_contact" /\ r.pc = "add_contact"
    /\ OnlySource(r.source_id)

\* C16: with sequential create_contact calls for one source starting from
\* zero load, a contact gets an operator exactly when some configured
\* operator is below capacity; so after at least sum(max_load) contacts
\* every configured active operator holds exactly max_load.
C16_AssignedWhileCapacity ==
    /\ [][\A r \in BagToSet(requests') :
             Answered(r) => (r.operator # None <=> Eligible(r.source_id) # {})]_vars
    /\ [](\A s \in SourceIdInputs :
             (OnlySource(s) /\ BagCardinality(contacts) >= SumMax(s))
                 => AllFull(s))

\* C16 as amended: a contact whose candidate query does not fail gets an
\* operator exactly when some configured operator is below capacity, and one
\* whose candidate query fails gets none; so the assigned contacts never
\* outnumber sum(max_load), and when they number sum(max_load) every
\* configured active operator holds exactly max_load.
C16_AssignedUnlessQueryFails ==
    /\ [][\A r \in BagToSet(requests') :
             Answered(r) =>
                /\ ~r.logged =>
                      (r.operator # None <=> Eligible(r.source_id) # {})
                /\ r.logged => r.operator = None]_vars
    /\ [](\A s \in SourceIdInputs :
             OnlySource(s) =>
                /\ Assigned <= SumMax(s)
                /\ Assigned = SumMax(s) => AllFull(s))

\* C16 witness: two operators of the source are full after three contacts.
C16_Witness ==
    \E s \in SourceIdInputs :
        /\ OnlySource(s)
        /\ Cardinality(ConfiguredActive(s)) = 2
        /\ BagCardinality(contacts) = 3
        /\ Assigned = SumMax(s)
        /\ AllFull(s)

\* ------------------------------------------------------------------- C17
\* r is the answer, given in this step, of a create_lead call whose
\* external_id belonged to a lead already.
AnsweredExisting(r) ==
    /\ Put(r)
    /\ r.kind = "create_lead" /\ r.pc = "done"
    /\ FindLead(leads, r.external_id) # None

\* No lead is added, the lead returned is the one that was there, and every
\* other lead is as it was.
SameLeads(r) ==
    /\ Len(leads') = Len(leads)
    /\ r.lead_id = FindLead(leads, r.external_id)
    /\ leads'[r.lead_id].external_id = r.external_id
    /\ \A i \in DOMAIN leads : i # r.lead_id => leads'[i] = leads[i]

\* C17: create_lead with an external_id that belongs to a lead adds no
\* lead and returns that lead, every field given as a non-empty value
\* overwritten and every field not given as it was.
C17_NonEmptyFieldsOverwritten ==
    [][\A r \in BagToSet(requests') :
          AnsweredExisting(r) =>
             /\ SameLeads(r)
             /\ \A f \in LeadFields :
                   LET new == r.input[f]
                   IN  /\ (new.tag = "str" /\ new.chars # <<>>)
                              => leads'[r.lead_id][f] = new
                       /\ new = Unset
                              => leads'[r.lead_id][f] = leads[r.lead_id][f]]_vars

\* C17 as amended: every field given as a value that is not empty once
\* stripped of whitespace is overwritten, and every other field (not given,
\* null, empty or blank) is as it was.
C17_NonBlankFieldsOverwritten ==
    [][\A r \in BagToSet(requests') :
          AnsweredExisting(r) =>
             /\ SameLeads(r)
             /\ \A f \in LeadFields :
                   LET new == r.input[f]
                   IN  IF new.tag = "str" /\ strip(new.chars) # <<>>
                       THEN leads'[r.lead_id][f] = new
                       ELSE leads'[r.lead_id][f] = leads[r.lead_id][f]]_vars

\* C17 witness: of a lead that has a name and a phone, a call has replaced
\* the name and, giving no phone, kept the phone.
C17_Witness ==
    \E r \in Calls :
        /\ r.kind = "create_lead" /\ r.pc = "done"
        /\ r.lead_id # None
        /\ r.input.name = Str(<<"y">>)
        /\ r.input.phone = Unset
        /\ leads[r.lead_id].name = Str(<<"y">>)
        /\ leads[r.lead_id].phone = Str(<<"x">>)

\* -------------------------------------------------------------- C21, C24
\* C21: in every reachable state there is at most one weight row per
\* (operator_id, source_id) pair, whatever set_distribution_config calls
\* were made, those that list an operator twice included.
C21_OneRowPerPair ==
    \A v, w \in weights :
        (v.operator_id = w.operator_id /\ v.source_id = w.source_id) => v = w

\* C21 witness: a call that listed one operator twice for one source, with
\* two weights, was refused, and weight rows are stored.
C21_Witness ==
    \E r \in Calls :
        /\ r.kind = "set_distribution_config"
        /\ r.status = 500
        /\ Len(r.input.operators) = 2
        /\ r.input.operators[1].operator_id = r.input.operators[2].operator_id
        /\ r.input.operators[1].source_id = r.input.operators[2].source_id
        /\ r.input.operators[1].weight # r.input.operators[2].weight
        /\ weights # {}

\* C24: a set_distribution_config call, successful or not, leaves the weight
\* rows of every source other than config.source_id as they were.
C24_OtherSourcesUntouched ==
    [][\A r \in BagToSet(requests') :
          Configured(r) =>
             \A s \in SourceIdInputs :
                s # r.input.source_id
                    => RowsOf(weights', s) = RowsOf(weights, s)]_vars

\* ------------------------------------------------------------------- C23
\* The number of contacts assigned to the operator whose status is new or
\* in_progress.
ActiveLoad(operator_id) ==
    LET rows == { c \in BagToSet(contacts) :
                    c.operator_id = operator_id
                        /\ (c.status = "new" \/ c.status = "in_progress") }
    IN  BagCardinality([c \in rows |-> contacts[c]])

\* C23: the current_load of an operator in the operator list and in the
\* single-operator lookup is the number of its contacts with status new or
\* in_progress, and so is the load get_available_operators compares with
\* max_load.
C23_LoadsAgree ==
    /\ [](\A o \in DOMAIN operators : current_load(contacts, o) = ActiveLoad(o))
    /\ [][\A r \in BagToSet(requests') :
             Put(r) =>
                /\ r.kind = "read_operators" =>
                      \A o \in DOMAIN operators :
                         r.result[o].current_load = ActiveLoad(o)
                /\ (r.kind = "read_operator" /\ r.status = 200) =>
                      r.result.current_load = ActiveLoad(r.operator)
                /\ r.kind = "get_available_operators" =>
                      \A i \in DOMAIN r.result :
                         r.result[i].current_load
                            = ActiveLoad(r.result[i].operator)]_vars

\* C23 witness: the lookup of an operator that has a new and a closed
\* contact has answered 1.
C23_Witness ==
    \E r \in Calls :
        /\ r.kind = "read_operator" /\ r.status = 200
        /\ r.result.current_load = 1
        /\ \E c, d \in BagToSet(contacts) :
              /\ c.operator_id = r.operator /\ c.status = "new"
              /\ d.operator_id = r.operator /\ d.status = "closed"

\* ------------------------------------------------------------------- C27
\* C27: with a non-empty candidate list of positive total weight, for every
\* draw random.uniform(0, total_weight) can produce the condition of the
\* loop holds at some candidate, so select_operator returns from inside the
\* loop and never reaches the statement after it.
C27_LoopAlwaysReturns ==
    [][\A r \in BagToSet(requests') :
          LET cands == Candidates(r.source_id)
          IN  (Picked(r) /\ cands # <<>> /\ total_weight(cands) > 0)
                  => /\ Reaching(cands, r.input.draw) # {}
                     /\ r.raised = ""
                     /\ r.operator \in { cands[i].operator :
                                           i \in Reaching(cands, r.input.draw) }]_vars

\* C27 witness: the largest draw, the total weight itself, was only reached
\* by the running sum of the last of several candidates, which was returned.
C27_Witness ==
    \E r \in Calls :
        LET cands == Candidates(r.source_id)
        IN  /\ r.kind = "pick" /\ ~r.logged
            /\ Len(cands) >= 2
            /\ total_weight(cands) > 0
            /\ r.input.draw = 2 * total_weight(cands)
            /\ Reaching(cands, r.input.draw) = {Len(cands)}
            /\ r.operator = cands[Len(cands)].operator

\* ------------------------------------------------------------------- C25
\* C25: no step removes a contact row or changes its status or operator, a
\* row that is added has status new, so the load of every operator never
\* decreases; and an operator that select_operator returns is below its
\* max_load at that moment, so that one that has reached max_load is never
\* returned again.
C25_LoadNeverDecreases ==
    [][/\ contacts' # contacts =>
             /\ contacts \sqsubseteq contacts'
             /\ \A c \in BagToSet(contacts' (-) contacts) : c.status = "new"
             /\ \A o \in DOMAIN operators :
                   current_load(contacts', o) >= current_load(contacts, o)
       /\ \A r \in BagToSet(requests') :
             Selected(r) =>
                current_load(contacts, r.operator)
                   < operators[r.operator].max_load]_vars

\* C25 witness: select_operator, its query not failing, has returned nobody
\* for a source whose configured active operators are all at max_load.
C25_Witness ==
    \E r \in Calls :
        /\ r.kind = "select_operator"
        /\ r.raised = "" /\ ~r.logged
        /\ r.operator = None
        /\ ConfiguredActive(r.source_id) # {}
        /\ \A o \in ConfiguredActive(r.source_id) :
              current_load(contacts, o) >= operators[o].max_load

\* ------------------------------------------------------------------- C26
\* The number of new/in_progress contacts of the operator that came from
\* other sources than this one.
OtherLoad(operator_id, source_id) ==
    LET rows == { c \in BagToSet(contacts) :
                    /\ c.operator_id = operator_id
                    /\ c.source_id # source_id
                    /\ c.status \in {"new", "in_progress"} }
    IN  BagCardinality([c \in rows |-> contacts[c]])

\* C26: an operator whose new/in_progress contacts from other sources
\* already number max_load is no candidate of a source, and select_operator
\* does not return it for that source, even without a contact from it.
C26_LoadOverAllSources ==
    /\ [](\A s \in SourceIdInputs :
             LET cands == Candidates(s)
             IN  \A i \in DOMAIN cands :
                    OtherLoad(cands[i].operator, s)
                       < operators[cands[i].operator].max_load)
    /\ [][\A r \in BagToSet(requests') :
             Selected(r) =>
                OtherLoad(r.operator, r.source_id)
                   < operators[r.operator].max_load]_vars

\* C26 witness: select_operator, its query not failing, has returned nobody
\* for a source with a configured active operator that has no contact from
\* it and is filled by contacts of another source.
C26_Witness ==
    \E r \in Calls : \E o \in ConfiguredActive(r.source_id) :
        /\ r.kind = "select_operator"
        /\ r.raised = "" /\ ~r.logged
        /\ r.operator = None
        /\ \A c \in BagToSet(contacts) :
              c.operator_id = o => c.source_id # r.source_id
        /\ OtherLoad(o, r.source_id) = operators[o].max_load

\* ------------------------------------------------------------------- C22
\* C22: in every reachable state at most one lead exists per external_id,
\* however create_lead and create_contact calls interleave; and the contact
\* a create_contact call stores references the one lead of its (stripped)
\* lead_external_id.
C22_OneLeadPerExternalId ==
    /\ [](\A i, j \in DOMAIN leads :
             leads[i].external_id = leads[j].external_id => i = j)
    /\ [][\A r \in BagToSet(requests') :
             (Put(r) /\ r.kind = "create_contact" /\ r.status = 201) =>
                /\ r.lead_id \in DOMAIN leads
                /\ leads[r.lead_id].external_id = r.external_id
                /\ \E c \in BagToSet(contacts' (-) contacts) :
                      c.lead_id = r.lead_id]_vars

\* C22 witness: a create_contact call that found no lead for its
\* external_id is about to insert one, while a create_lead call has
\* inserted the lead of that external_id in between.
C22_Witness ==
    \E r, q \in Calls :
        /\ r.kind = "create_contact" /\ r.pc = "add_lead"
        /\ q.kind = "create_lead" /\ q.pc = "done"
        /\ q.external_id = r.external_id
        /\ q.lead_id = Len(leads)
        /\ FindLead(leads, r.external_id) = q.lead_id

====
